---- MODULE Spec2Model ----
(***************************************************************************)
(* Model of spotcli.spotify.Spotify: credential resolution in __init__,    *)
(* the lazily created `session` property and the cached, time-bounded      *)
(* `token` property.                                                       *)
(*                                                                         *)
(* Python strings are sequences of code points, None is the sequence       *)
(* <<-1>>.  An object is a function from the names of the attributes it    *)
(* has to their values, so hasattr is a test on its DOMAIN.  Time is the   *)
(* value time() returns, in whole ticks; a network round trip lasts any    *)
(* number of ticks, zero included.                                         *)
(***************************************************************************)
EXTENDS Integers, Sequences, FiniteSets, TLC

VARIABLES CLIENT_ID, CLIENT_SECRET, phase, self, ctor, clock, pc, frame,
          requests, session_count, session_seen, session_reads, naccess,
          last, fetched, http, mt

vars == <<CLIENT_ID, CLIENT_SECRET, phase, self, ctor, clock, pc, frame,
          requests, session_count, session_seen, session_reads, naccess,
          last, fetched, http, mt>>

(* ------------------------------ bounds -------------------------------- *)

MaxTime == 3

MaxAccesses == 2

MaxLifetime == 1

MaxSessionReads == 2

MaxThreadedAccesses == 3

MaxThreadTime == 1

(* ------------------------------ values -------------------------------- *)

None == <<-1>>

Threads == {1, 2}

ArgValues == {None, <<>>, <<97>>}

ConfigValues == {None, <<98, 99>>}

AccessTokens == {<<65>>, <<66>>}

Lifetimes == 0 .. MaxLifetime

TOKEN_URL == "TOKEN_URL"

(* --------------------------- Python helpers --------------------------- *)

hasattr(obj, name) == name \in DOMAIN obj

setattr_KeepOld(obj, name, val) ==
  [n \in DOMAIN obj \cup {name} |-> IF n \in DOMAIN obj THEN obj[n] ELSE val]

setattr(obj, name, val) ==
  [n \in DOMAIN obj \cup {name} |-> IF n = name THEN val ELSE obj[n]]

get_WrongKey(d, key) == IF "token" \in DOMAIN d THEN d["token"] ELSE None

get(d, key) == IF key \in DOMAIN d THEN d[key] ELSE None

Falsy_OnlyNone(v) == v = None

Falsy(v) == v = None \/ v = <<>>

RECURSIVE bytes(_)
bytes(s) ==
  IF s = <<>> THEN <<>>
  ELSE (IF s[1] < 128 THEN <<s[1]>>
        ELSE <<192 + (s[1] \div 64), 128 + (s[1] % 64)>>) \o bytes(Tail(s))

B64Char(i) ==
  IF i < 26 THEN 65 + i
  ELSE IF i < 52 THEN 97 + (i - 26)
  ELSE IF i < 62 THEN 48 + (i - 52)
  ELSE IF i = 62 THEN 43 ELSE 47

RECURSIVE b64encode(_)
b64encode(b) ==
  IF Len(b) = 0 THEN <<>>
  ELSE IF Len(b) = 1 THEN
    LET n == b[1] * 65536
    IN  <<B64Char(n \div 262144), B64Char((n \div 4096) % 64), 61, 61>>
  ELSE IF Len(b) = 2 THEN
    LET n == b[1] * 65536 + b[2] * 256
    IN  <<B64Char(n \div 262144), B64Char((n \div 4096) % 64),
          B64Char((n \div 64) % 64), 61>>
  ELSE
    LET n == b[1] * 65536 + b[2] * 256 + b[3]
    IN  <<B64Char(n \div 262144), B64Char((n \div 4096) % 64),
          B64Char((n \div 64) % 64), B64Char(n % 64)>>
        \o b64encode(SubSeq(b, 4, Len(b)))

_encode_NoColon(obj) == b64encode(bytes(obj.client_id \o obj.client_secret))

_encode(obj) == b64encode(bytes(obj.client_id \o <<58>> \o obj.client_secret))

BasicPrefix == <<66, 97, 115, 105, 99, 32>>

Headers(obj) == [Authorization |-> BasicPrefix \o _encode(obj)]

Data == [grant_type |-> "client_credentials"]

(* ----------------------------- __init__ ------------------------------- *)

ClientIdError_Secret(cfg) ==
  [type |-> "ClientException", missing |-> "Client Secret", got |-> cfg]

ClientIdError(cfg) ==
  [type |-> "ClientException", missing |-> "Client ID", got |-> cfg]

ClientSecretError(cfg) ==
  [type |-> "ClientException", missing |-> "Client Secret", got |-> cfg]

NoError == [type |-> "", missing |-> "", got |-> None]

Construct(id_arg, secret_arg) ==
  /\ phase = "new"
  /\ LET s1 == setattr(self, "client_id", id_arg)
         s2 == IF Falsy(id_arg) THEN setattr(s1, "client_id", CLIENT_ID)
               ELSE s1
         s3 == setattr(s2, "client_secret", secret_arg)
         s4 == IF Falsy(secret_arg)
               THEN setattr(s3, "client_secret", CLIENT_SECRET) ELSE s3
     IN  IF Falsy(id_arg) /\ Falsy(CLIENT_ID) THEN
           /\ self' = s1
           /\ phase' = "failed"
           /\ ctor' = [id_arg |-> id_arg, secret_arg |-> secret_arg,
                       raised |-> ClientIdError(CLIENT_ID)]
         ELSE IF Falsy(secret_arg) /\ Falsy(CLIENT_SECRET) THEN
           /\ self' = s3
           /\ phase' = "failed"
           /\ ctor' = [id_arg |-> id_arg, secret_arg |-> secret_arg,
                       raised |-> ClientSecretError(CLIENT_SECRET)]
         ELSE
           /\ self' = s4
           /\ phase' = "ok"
           /\ ctor' = [id_arg |-> id_arg, secret_arg |-> secret_arg,
                       raised |-> NoError]
  /\ UNCHANGED <<CLIENT_ID, CLIENT_SECRET, clock, pc, frame, requests,
                 session_count, session_seen, session_reads, naccess,
                 last, fetched, http, mt>>

(* ------------------------------ session ------------------------------- *)

\* Retry(total=5, status_forcelist=[...]) mounted on the session's adapter.
RetryTotal == 5

status_forcelist == {408, 500, 502, 503, 504}

is_retry_AnyError(status) == status >= 400

is_retry(status) == status \in status_forcelist

NeedsSession_Always(obj) == TRUE

NeedsSession(obj) == ~hasattr(obj, "_session")

session_Scrub(obj, count) ==
  IF NeedsSession(obj)
  THEN [self |-> setattr(setattr(obj, "_session", count + 1),
                         "client_secret", <<>>),
        count |-> count + 1, ret |-> count + 1]
  ELSE [self |-> obj, count |-> count, ret |-> obj._session]

\* The `session` property: the object afterwards, the number of Session
\* objects constructed so far and the Session returned.
session(obj, count) ==
  IF NeedsSession(obj)
  THEN [self |-> setattr(obj, "_session", count + 1), count |-> count + 1,
        ret |-> count + 1]
  ELSE [self |-> obj, count |-> count, ret |-> obj._session]

SessionRead(t) ==
  /\ phase = "ok"
  /\ pc[t] = "idle"
  /\ session_reads < MaxSessionReads
  /\ LET r == session(self, session_count)
     IN  /\ self' = r.self
         /\ session_count' = r.count
         /\ session_seen' = session_seen \cup {r.ret}
  /\ session_reads' = session_reads + 1
  /\ UNCHANGED <<CLIENT_ID, CLIENT_SECRET, phase, ctor, clock, pc, frame,
                 requests, naccess, last, fetched, http, mt>>

(* ------------------------------- token -------------------------------- *)

ErrorBodies == {[error |-> "invalid_client"]}

JsonBodies ==
  {[access_token |-> a, expires_in |-> l] : a \in AccessTokens, l \in Lifetimes}
  \cup {[access_token |-> a] : a \in AccessTokens}
  \cup {[expires_in |-> l] : l \in Lifetimes}
  \cup ErrorBodies

NoBody == [error |-> "none"]

\* What comes back from session.post: a transport failure, or a response
\* with a status and a body that is JSON (json) or not.
Responses ==
  {[kind |-> "transport", status |-> 0, decodable |-> FALSE, json |-> NoBody]}
  \cup {[kind |-> "http", status |-> s, decodable |-> FALSE, json |-> NoBody] :
          s \in {200, 401}}
  \cup {[kind |-> "http", status |-> 401, decodable |-> TRUE, json |-> b] :
          b \in ErrorBodies}
  \cup {[kind |-> "http", status |-> 200, decodable |-> TRUE, json |-> b] :
          b \in JsonBodies}

NoResponse == [kind |-> "none", status |-> 0, decodable |-> FALSE, json |-> NoBody]

\* res.json() of a body that is not JSON raises a RequestException subclass
\* in recent releases of requests and a plain ValueError subclass in older.
JsonErrorKinds == {"SpotbitException", "JSONDecodeError"}

_get_token(resp, jsonErr) ==
  IF resp.kind = "transport" THEN [raised |-> "SpotbitException", token |-> NoBody]
  ELSE IF ~resp.decodable THEN [raised |-> jsonErr, token |-> NoBody]
  ELSE IF resp.status >= 400 THEN [raised |-> "SpotbitException", token |-> NoBody]
  ELSE [raised |-> "", token |-> resp.json]

token_expired_Reversed(now, expires) == now < expires

token_expired_Inclusive(now, expires) == now >= expires

token_expired(now, expires) == now > expires

ExpiresAt_Lifetime(expires_in, now) == expires_in

ExpiresAt(expires_in, now) == expires_in + now

\* The last access that fetched and returned: when its response arrived (T),
\* the lifetime it reported (L), the time the access sampled (S), the token.
NoFetch == [n |-> 0, T |-> 0, L |-> 0, S |-> 0, token |-> None]

IdleFrame == [now |-> 0, pre |-> [class |-> "Spotify"], prev |-> NoFetch]

SingleThreaded == \A u \in Threads : pc[u] = "idle"

Finish(t, kind, value, posts, began, pre, post, resp, prev) ==
  /\ last' = [acc |-> IF posts = 0 /\ pc[t] = "idle" THEN naccess + 1 ELSE naccess,
              kind |-> kind, value |-> value, began |-> began, at |-> clock,
              posts |-> posts, pre |-> pre, post |-> post, resp |-> resp,
              prev |-> prev]
  /\ pc' = [pc EXCEPT ![t] = "idle"]
  /\ frame' = [frame EXCEPT ![t] = IdleFrame]

\* Lines 106-115 / 120-122 up to the moment the request is on the wire,
\* or the whole access when the cached token is served.
TokenBegin(t) ==
  /\ phase = "ok"
  /\ pc[t] = "idle"
  /\ SingleThreaded
  /\ naccess < MaxAccesses
  /\ naccess' = naccess + 1
  /\ LET now == clock
         sess == session(self, session_count)
         req == [acc |-> naccess + 1, method |-> "POST", url |-> TOKEN_URL,
                 data |-> Data, headers |-> Headers(self)]
         Post(branch) ==
           /\ self' = sess.self
           /\ session_count' = sess.count
           /\ requests' = Append(requests, req)
           /\ pc' = [pc EXCEPT ![t] = branch]
           /\ frame' = [frame EXCEPT ![t] =
                          [now |-> now, pre |-> self, prev |-> fetched]]
           /\ UNCHANGED last
     IN  IF ~hasattr(self, "_token") THEN Post("first")
         ELSE IF ~hasattr(self, "_expires_in") THEN
           /\ Finish(t, "AttributeError", None, 0, now, self, self,
                     NoResponse, fetched)
           /\ UNCHANGED <<self, session_count, requests>>
         ELSE IF token_expired(now, self._expires_in) THEN Post("refresh")
         ELSE
           /\ Finish(t, "return", self._token, 0, now, self, self,
                     NoResponse, fetched)
           /\ UNCHANGED <<self, session_count, requests>>
  /\ UNCHANGED <<CLIENT_ID, CLIENT_SECRET, phase, ctor, clock, session_seen,
                 session_reads, fetched, http, mt>>

\* Lines 97-104 once session.post comes back, then 116-118 / 123-125.
TokenResponse(t, resp, jsonErr) ==
  /\ pc[t] \in {"first", "refresh"}
  /\ LET f == frame[t]
         r == _get_token(resp, jsonErr)
         s1 == setattr(self, "_token", get(r.token, "access_token"))
         s2 == setattr(s1, "_expires_in", ExpiresAt(r.token.expires_in, f.now))
     IN  IF r.raised # "" THEN
           /\ Finish(t, r.raised, None, 1, f.now, f.pre, self, resp, f.prev)
           /\ UNCHANGED <<self, fetched>>
         ELSE IF ~("expires_in" \in DOMAIN r.token) THEN
           /\ self' = s1
           /\ Finish(t, "TypeError", None, 1, f.now, f.pre, s1, resp, f.prev)
           /\ UNCHANGED fetched
         ELSE
           /\ self' = s2
           /\ Finish(t, "return", s2._token, 1, f.now, f.pre, s2, resp, f.prev)
           /\ fetched' = [n |-> 1, T |-> clock, L |-> r.token.expires_in,
                          S |-> f.now, token |-> s2._token]
  /\ UNCHANGED <<CLIENT_ID, CLIENT_SECRET, phase, ctor, clock, requests,
                 session_count, session_seen, session_reads, naccess, http, mt>>

\* The requests the adapter has put on the wire for token access number acc
\* (one unless it re-sent), and the status that made it re-send last.
NoResend == [acc |-> 0, sends |-> 1, retried |-> 0]

Sends(k) == IF http.acc = k THEN http.sends ELSE 1

WireStatuses == {200, 401, 408, 503}

\* The adapter gets a response whose status the retry policy lists while
\* retries are left, and sends the request again instead of handing the
\* response to session.post's caller.
Resend(t, status) ==
  /\ pc[t] \in {"first", "refresh"}
  /\ is_retry(status)
  /\ Sends(naccess) - 1 < RetryTotal
  /\ http' = [acc |-> naccess, sends |-> Sends(naccess) + 1, retried |-> status]
  /\ UNCHANGED <<CLIENT_ID, CLIENT_SECRET, phase, self, ctor, clock, pc, frame,
                 requests, session_count, session_seen, session_reads,
                 naccess, last, fetched, mt>>

Tick ==
  /\ phase = "ok"
  /\ clock < MaxTime
  /\ clock' = clock + 1
  /\ UNCHANGED <<CLIENT_ID, CLIENT_SECRET, phase, self, ctor, pc, frame,
                 requests, session_count, session_seen, session_reads,
                 naccess, last, fetched, http, mt>>

(* ------------------------- token, by threads -------------------------- *)

\* The same two properties run by threads that may be switched between any
\* two statements.  mt keeps, for each thread, the call it is in (cur) and
\* the last token access it completed (done), the number of Session objects
\* it constructed (made), and the numbers of the accesses that wrote _token
\* (tokw) and _expires_in (expw) last and that completed last (fin).
NoCall == [acc |-> 0, now |-> 0, old |-> -1, body |-> NoBody]

NoDone ==
  [acc |-> 0, kind |-> "none", value |-> None, tok |-> None, posts |-> 0,
   old |-> -1, exp |-> -1, partial |-> FALSE]

Storing(u) == pc[u] \in {"first_exp", "refresh_exp"}

\* Lines 106-114 and 120-121, and inside _get_token the test of line 69:
\* with a session the request goes out, without one the thread goes on to
\* construct it.
ThreadBegin(t) ==
  /\ phase = "ok"
  /\ pc[t] = "idle"
  /\ naccess < MaxThreadedAccesses
  /\ naccess' = naccess + 1
  /\ LET now == clock
         acc == naccess + 1
         old == IF hasattr(self, "_expires_in") THEN self._expires_in ELSE -1
         req == [acc |-> acc, method |-> "POST", url |-> TOKEN_URL,
                 data |-> Data, headers |-> Headers(self)]
         call == [acc |-> acc, now |-> now, old |-> old, body |-> NoBody]
         Fetch(branch, make) ==
           IF NeedsSession(self)
           THEN /\ pc' = [pc EXCEPT ![t] = make]
                /\ mt' = [mt EXCEPT !.cur[t] = call]
                /\ UNCHANGED requests
           ELSE /\ pc' = [pc EXCEPT ![t] = branch]
                /\ mt' = [mt EXCEPT !.cur[t] = call]
                /\ requests' = Append(requests, req)
         Return(kind, value) ==
           /\ mt' = [mt EXCEPT !.done[t] =
                       [acc |-> acc, kind |-> kind, value |-> value,
                        tok |-> None, posts |-> 0, old |-> old, exp |-> -1,
                        partial |-> \E u \in Threads \ {t} : Storing(u)],
                     !.fin = acc]
           /\ UNCHANGED <<pc, requests>>
     IN  IF ~hasattr(self, "_token") THEN Fetch("first", "first_mk")
         ELSE IF ~hasattr(self, "_expires_in") THEN Return("AttributeError", None)
         ELSE IF token_expired(now, self._expires_in)
           THEN Fetch("refresh", "refresh_mk")
         ELSE Return("return", self._token)
  /\ UNCHANGED <<CLIENT_ID, CLIENT_SECRET, phase, self, ctor, clock, frame,
                 session_count, session_seen, session_reads, last, fetched,
                 http>>

\* Lines 70-90 run by a thread that found no session at line 69, then the
\* post of line 97 on the session it made.
ThreadSessionMake(t) ==
  /\ pc[t] \in {"first_mk", "refresh_mk"}
  /\ session_count' = session_count + 1
  /\ self' = setattr(self, "_session", session_count + 1)
  /\ requests' = Append(requests,
                        [acc |-> mt.cur[t].acc, method |-> "POST",
                         url |-> TOKEN_URL, data |-> Data,
                         headers |-> Headers(self)])
  /\ pc' = [pc EXCEPT ![t] = IF pc[t] = "first_mk" THEN "first" ELSE "refresh"]
  /\ mt' = [mt EXCEPT !.made[t] = @ + 1]
  /\ UNCHANGED <<CLIENT_ID, CLIENT_SECRET, phase, ctor, clock, frame,
                 session_seen, session_reads, naccess, last, fetched, http>>

\* Lines 97-104 once the response is there, and line 116 / 123.
ThreadResponse(t, resp, jsonErr) ==
  /\ pc[t] \in {"first", "refresh"}
  /\ LET c == mt.cur[t]
         r == _get_token(resp, jsonErr)
     IN  IF r.raised # "" THEN
           /\ mt' = [mt EXCEPT !.cur[t] = NoCall,
                               !.done[t] =
                                 [acc |-> c.acc, kind |-> r.raised,
                                  value |-> None, tok |-> None, posts |-> 1,
                                  old |-> c.old, exp |-> -1, partial |-> FALSE],
                               !.fin = c.acc]
           /\ pc' = [pc EXCEPT ![t] = "idle"]
           /\ UNCHANGED self
         ELSE
           /\ self' = setattr(self, "_token", get(r.token, "access_token"))
           /\ mt' = [mt EXCEPT !.cur[t].body = r.token, !.tokw = c.acc]
           /\ pc' = [pc EXCEPT ![t] = IF pc[t] = "first" THEN "first_exp"
                                      ELSE "refresh_exp"]
  /\ UNCHANGED <<CLIENT_ID, CLIENT_SECRET, phase, ctor, clock, frame, requests,
                 session_count, session_seen, session_reads, naccess, last,
                 fetched, http>>

\* Lines 117-118 / 124-125.
ThreadStoreExpiry(t) ==
  /\ Storing(t)
  /\ LET c == mt.cur[t]
         s2 == setattr(self, "_expires_in", ExpiresAt(c.body.expires_in, c.now))
     IN  IF ~("expires_in" \in DOMAIN c.body) THEN
           /\ mt' = [mt EXCEPT !.cur[t] = NoCall,
                               !.done[t] =
                                 [acc |-> c.acc, kind |-> "TypeError",
                                  value |-> None,
                                  tok |-> get(c.body, "access_token"),
                                  posts |-> 1, old |-> c.old, exp |-> -1,
                                  partial |-> FALSE],
                               !.fin = c.acc]
           /\ UNCHANGED self
         ELSE
           /\ self' = s2
           /\ mt' = [mt EXCEPT !.cur[t] = NoCall,
                               !.done[t] =
                                 [acc |-> c.acc, kind |-> "return",
                                  value |-> s2._token,
                                  tok |-> get(c.body, "access_token"),
                                  posts |-> 1, old |-> c.old,
                                  exp |-> s2._expires_in, partial |-> FALSE],
                               !.expw = c.acc, !.fin = c.acc]
  /\ pc' = [pc EXCEPT ![t] = "idle"]
  /\ UNCHANGED <<CLIENT_ID, CLIENT_SECRET, phase, ctor, clock, frame, requests,
                 session_count, session_seen, session_reads, naccess, last,
                 fetched, http>>

(* --------------------------- specification ---------------------------- *)

NoThreads ==
  [cur |-> [t \in Threads |-> NoCall], done |-> [t \in Threads |-> NoDone],
   made |-> [t \in Threads |-> 0], tokw |-> 0, expw |-> 0, fin |-> 0]

NoAccess ==
  [acc |-> 0, kind |-> "none", value |-> None, began |-> 0, at |-> 0,
   posts |-> 0, pre |-> [class |-> "Spotify"], post |-> [class |-> "Spotify"],
   resp |-> NoResponse, prev |-> NoFetch]

Init ==
  /\ CLIENT_ID \in ConfigValues
  /\ CLIENT_SECRET \in ConfigValues
  /\ phase = "new"
  /\ self = [class |-> "Spotify"]
  /\ ctor = [id_arg |-> None, secret_arg |-> None, raised |-> NoError]
  /\ clock = 0
  /\ pc = [t \in Threads |-> "idle"]
  /\ frame = [t \in Threads |-> IdleFrame]
  /\ requests = <<>>
  /\ session_count = 0
  /\ session_seen = {}
  /\ session_reads = 0
  /\ naccess = 0
  /\ last = NoAccess
  /\ fetched = NoFetch
  /\ http = NoResend
  /\ mt = NoThreads

ConstructStep == \E i \in ArgValues, s \in ArgValues : Construct(i, s)

SessionReadStep == \E t \in Threads : SessionRead(t)

TokenBeginStep == \E t \in Threads : TokenBegin(t)

TokenResponseStep ==
  \E t \in Threads, resp \in Responses, e \in JsonErrorKinds :
    TokenResponse(t, resp, e)

Next ==
  \/ ConstructStep
  \/ SessionReadStep
  \/ TokenBeginStep
  \/ TokenResponseStep
  \/ Tick

Spec == Init /\ [][Next]_vars

\* The token and session machinery of one client, built with explicit
\* credentials while the configuration holds none.
InitToken == Init /\ CLIENT_ID = None /\ CLIENT_SECRET = None

ConstructExplicit == Construct(<<97>>, <<98, 99>>)

NextToken ==
  \/ ConstructExplicit
  \/ SessionReadStep
  \/ TokenBeginStep
  \/ TokenResponseStep
  \/ Tick

SpecToken == InitToken /\ [][NextToken]_vars

\* Every way of constructing a client, and what the client then does at one
\* reading of the clock.
NextConstruct ==
  \/ ConstructStep
  \/ SessionReadStep
  \/ TokenBeginStep
  \/ TokenResponseStep

SpecConstruct == Init /\ [][NextConstruct]_vars

\* The token fetch with the adapter's re-sends visible.
ResendStep == \E t \in Threads, status \in WireStatuses : Resend(t, status)

NextRetry ==
  \/ ConstructExplicit
  \/ TokenBeginStep
  \/ ResendStep
  \/ TokenResponseStep

SpecRetry == InitToken /\ [][NextRetry]_vars

\* One client used by two threads, every fetch answered by a complete
\* response.
CompleteResponses ==
  {[kind |-> "http", status |-> 200, decodable |-> TRUE, json |-> b] :
     b \in {[access_token |-> a, expires_in |-> l] :
              a \in AccessTokens, l \in Lifetimes}}

\* The clock of the threaded runs.
ThreadTick ==
  /\ clock < MaxThreadTime
  /\ clock' = clock + 1
  /\ UNCHANGED <<CLIENT_ID, CLIENT_SECRET, phase, self, ctor, pc, frame,
                 requests, session_count, session_seen, session_reads,
                 naccess, last, fetched, http, mt>>

ThreadBeginStep == \E t \in Threads : ThreadBegin(t)

ThreadSessionMakeStep == \E t \in Threads : ThreadSessionMake(t)

ThreadResponseStep ==
  \E t \in Threads, resp \in CompleteResponses :
    ThreadResponse(t, resp, "JSONDecodeError")

ThreadStoreExpiryStep == \E t \in Threads : ThreadStoreExpiry(t)

NextThreads ==
  \/ ConstructExplicit
  \/ ThreadBeginStep
  \/ ThreadSessionMakeStep
  \/ ThreadResponseStep
  \/ ThreadStoreExpiryStep
  \/ ThreadTick

SpecThreads == InitToken /\ [][NextThreads]_vars

(* ----------------------------- properties ----------------------------- *)

Failed(a) == a.kind \notin {"none", "return"}

Complete(resp) ==
  /\ resp.kind = "http" /\ resp.status = 200 /\ resp.decodable
  /\ {"access_token", "expires_in"} \subseteq DOMAIN resp.json

\* The stored token record: which of the two fields exist, and their values.
Record(obj) ==
  <<hasattr(obj, "_token"), get(obj, "_token"),
    hasattr(obj, "_expires_in"), get(obj, "_expires_in")>>

\* C1: a token access that returns does so no later than the stored expiry
\* of the token it returns.
C1_ReturnedTokenNotExpired ==
  (last.kind = "return" /\ last.value # None)
  => last.at <= last.post._expires_in

\* C2: after a fetch that succeeded at T with lifetime L, an access made
\* before T+L is served from the cache: the fetched token is returned, no
\* request is made and the stored record is left as it was.
C2_CachedBeforeExpiry ==
  (last.kind # "none" /\ last.prev.n = 1 /\ last.prev.token # None
     /\ last.began < last.prev.T + last.prev.L)
  => /\ last.kind = "return"
     /\ last.posts = 0
     /\ last.value = last.prev.token
     /\ Record(last.post) = Record(last.pre)

\* What C3 promises of an access that has to refresh: one request, and on a
\* complete 200 response the new token stored and returned and the expiry
\* replaced by one counted from a moment of this access.
Refreshed(a) ==
  /\ a.posts = 1
  /\ Complete(a.resp) =>
       /\ a.kind = "return"
       /\ a.value = a.resp.json.access_token
       /\ a.post._token = a.resp.json.access_token
       /\ (a.post._expires_in - a.resp.json.expires_in) \in a.began .. a.at

\* C3 as stated: after a fetch that succeeded at T with lifetime L, an access
\* made at T+L or later refreshes.
C3_RefreshAtOrAfterExpiry ==
  (last.kind # "none" /\ last.prev.n = 1 /\ last.prev.token # None
     /\ last.began >= last.prev.T + last.prev.L)
  => Refreshed(last)

\* C3 amended: after a fetch that succeeded at T with lifetime L, an access
\* made strictly after T+L refreshes.
C3_RefreshAfterExpiry ==
  (last.kind # "none" /\ last.prev.n = 1 /\ last.prev.token # None
     /\ last.began > last.prev.T + last.prev.L)
  => Refreshed(last)

C3_Witness ==
  /\ last.prev.n = 1
  /\ last.prev.token # None
  /\ last.began > last.prev.T + last.prev.L
  /\ last.kind = "return"
  /\ last.posts = 1
  /\ last.value # last.prev.token

\* C4: a token access that fails leaves the stored token and expiry exactly
\* as they were when it began.
C4_FailureKeepsRecord ==
  Failed(last) => Record(last.post) = Record(last.pre)

\* C5: a token access that fails raises SpotbitException, whatever failed.
C5_OnlySpotbitException ==
  Failed(last) => last.kind = "SpotbitException"

B64Index(c) ==
  IF c >= 65 /\ c <= 90 THEN c - 65
  ELSE IF c >= 97 /\ c <= 122 THEN c - 71
  ELSE IF c >= 48 /\ c <= 57 THEN c + 4
  ELSE IF c = 43 THEN 62
  ELSE IF c = 47 THEN 63 ELSE 0

\* The text a base64 string stands for (RFC 4648, with padding).
RECURSIVE B64Decode(_)
B64Decode(s) ==
  IF Len(s) < 4 THEN <<>>
  ELSE
    LET n == B64Index(s[1]) * 262144 + B64Index(s[2]) * 4096
             + B64Index(s[3]) * 64 + B64Index(s[4])
        three == <<n \div 65536, (n \div 256) % 256, n % 256>>
    IN  IF s[3] = 61 THEN SubSeq(three, 1, 1)
        ELSE IF s[4] = 61 THEN SubSeq(three, 1, 2)
        ELSE three \o B64Decode(SubSeq(s, 5, Len(s)))

NonEmpty(v) == v # None /\ v # <<>>

\* The credential construction is specified to settle on.
Resolved(arg, fallback) == IF NonEmpty(arg) THEN arg ELSE fallback

\* C6: the first token access of a client posts exactly one request to the
\* token endpoint, with the form grant_type=client_credentials and an
\* Authorization header "Basic " + base64 of "client_id:client_secret" of the
\* credentials resolved at construction.
C6_FirstAccessRequest ==
  naccess >= 1 =>
    LET auth == requests[1].headers.Authorization
        cred == SubSeq(auth, Len(BasicPrefix) + 1, Len(auth))
    IN  /\ Cardinality({i \in DOMAIN requests : requests[i].acc = 1}) = 1
        /\ requests[1].acc = 1
        /\ requests[1].method = "POST"
        /\ requests[1].url = TOKEN_URL
        /\ requests[1].data = [grant_type |-> "client_credentials"]
        /\ DOMAIN requests[1].headers = {"Authorization"}
        /\ SubSeq(auth, 1, Len(BasicPrefix)) = <<66, 97, 115, 105, 99, 32>>
        /\ Len(cred) % 4 = 0
        /\ B64Decode(cred) = Resolved(ctor.id_arg, CLIENT_ID) \o <<58>>
                                \o Resolved(ctor.secret_arg, CLIENT_SECRET)

C6_Witness ==
  /\ last.acc = 1
  /\ last.posts = 1
  /\ Len(requests) = 1
  /\ Len(self.client_id \o self.client_secret) = 3

\* C7: every Session the `session` property has returned is the one the
\* client holds now, whatever session and token accesses came in between.
C7_SessionIdentical ==
  \A s \in session_seen : hasattr(self, "_session") /\ self._session = s

C7_Witness ==
  /\ session_reads = 2
  /\ session_seen # {}
  /\ Failed(last)
  /\ fetched.n = 1

\* C8: construction settles each credential on the argument if that is
\* non-empty and on the configured fallback otherwise, and succeeds exactly
\* when both settled values are non-empty.
C8_Resolution ==
  phase # "new" =>
    LET id == Resolved(ctor.id_arg, CLIENT_ID)
        secret == Resolved(ctor.secret_arg, CLIENT_SECRET)
    IN  /\ phase = "ok" <=> (NonEmpty(id) /\ NonEmpty(secret))
        /\ phase = "ok" => /\ self.client_id = id
                           /\ self.client_secret = secret
                           /\ ctor.raised = NoError

C8_Witness ==
  /\ phase = "ok"
  /\ NonEmpty(ctor.id_arg)
  /\ NonEmpty(CLIENT_ID)
  /\ self.client_id = ctor.id_arg
  /\ ctor.secret_arg = <<>>
  /\ self.client_secret = CLIENT_SECRET

Missing(arg, fallback) == ~NonEmpty(arg) /\ ~NonEmpty(fallback)

\* C9: with the client identifier, or the client secret, empty as argument
\* and as fallback, construction raises a ClientException naming that value
\* (the identifier when both are missing), and a failed construction has
\* made no request and created neither session nor token.
C9_MissingCredential ==
  phase # "new" =>
    /\ Missing(ctor.id_arg, CLIENT_ID) =>
         /\ phase = "failed"
         /\ ctor.raised.type = "ClientException"
         /\ ctor.raised.missing = "Client ID"
    /\ (Missing(ctor.secret_arg, CLIENT_SECRET)
          /\ ~Missing(ctor.id_arg, CLIENT_ID)) =>
         /\ phase = "failed"
         /\ ctor.raised.type = "ClientException"
         /\ ctor.raised.missing = "Client Secret"
    /\ phase = "failed" =>
         /\ requests = <<>>
         /\ naccess = 0
         /\ session_count = 0
         /\ ~hasattr(self, "_session")
         /\ ~hasattr(self, "_token")
         /\ ~hasattr(self, "_expires_in")

C9_Witness ==
  /\ phase = "failed"
  /\ Missing(ctor.id_arg, CLIENT_ID)
  /\ Missing(ctor.secret_arg, CLIENT_SECRET)
  /\ ctor.raised.missing = "Client ID"

\* Where the token record stands at a given time.
Lifecycle(obj, time) ==
  IF ~hasattr(obj, "_token") /\ ~hasattr(obj, "_expires_in") THEN "Unset"
  ELSE IF ~hasattr(obj, "_token") \/ ~hasattr(obj, "_expires_in") THEN "Partial"
  ELSE IF time > obj._expires_in THEN "Expired"
  ELSE "Valid"

\* C10: the token record only ever moves Unset -> Valid by a fetch,
\* Valid -> Expired by time alone and Expired -> Valid by a fetch; a record
\* that is Valid is not written.
C10_Lifecycle ==
  [][LET from == Lifecycle(self, clock)
         to == Lifecycle(self', clock')
     IN  /\ \/ from = to
            \/ from = "Unset" /\ to = "Valid" /\ Record(self') # Record(self)
            \/ from = "Valid" /\ to = "Expired" /\ Record(self') = Record(self)
            \/ from = "Expired" /\ to = "Valid" /\ Record(self') # Record(self)
         /\ from = "Valid" => Record(self') = Record(self)]_vars

\* C11: after a fetch that succeeded, the stored expiry is the time the
\* response arrived plus the lifetime the response reports.
C11_ExpiryFromAcquisition ==
  (last.kind = "return" /\ last.posts = 1 /\ Complete(last.resp))
  => last.post._expires_in = last.at + last.resp.json.expires_in

C13_BoundedResend ==
  /\ http.sends <= 6
  /\ http.sends > 1 => http.retried \in {408, 500, 502, 503, 504}
  /\ http.sends > 1 =>
       Cardinality({i \in DOMAIN requests : requests[i].acc = http.acc}) = 1

\* Five re-sends, then the fetch ends in the exception; the next fetch,
\* answered 401, ends after its single request.
C13_Witness ==
  /\ http.acc = 1
  /\ http.sends = 6
  /\ last.acc = 2
  /\ last.resp.status = 401
  /\ last.kind = "SpotbitException"
  /\ Sends(2) = 1

\* The two threads are idle, the last two accesses were one refresh each,
\* both returned, and both saw the same stored expiry when they began: each
\* began before the other stored anything.
BothRefreshed ==
  /\ \A t \in Threads :
       /\ pc[t] = "idle"
       /\ mt.done[t].kind = "return"
       /\ mt.done[t].posts = 1
       /\ mt.done[t].old >= 0
  /\ mt.done[1].old = mt.done[2].old
  /\ {mt.done[1].acc, mt.done[2].acc} = {naccess - 1, naccess}

RefreshRequests ==
  {i \in DOMAIN requests : requests[i].acc \in {naccess - 1, naccess}}

LaterCompleting == CHOOSE t \in Threads : mt.done[t].acc = mt.fin

LaterTokenWriter == CHOOSE t \in Threads : mt.done[t].acc = mt.tokw

C15_SessionConstructedOnce == session_count <= 1

\* C15 as the code has it: each thread constructs a session at most once,
\* so that two threads whose first accesses overlap construct one each.
C15_OncePerThread ==
  /\ \A t \in Threads : mt.made[t] <= 1
  /\ session_count = mt.made[1] + mt.made[2]
  /\ session_count >= 1 <=> hasattr(self, "_session")

C15_Witness ==
  /\ session_count = 2
  /\ mt.made[1] = 1 /\ mt.made[2] = 1
  /\ self._session = 2

\* C16: no step of a constructed client changes client_id or client_secret,
\* and all token requests carry one Authorization header.
C16_CredentialsFixed ==
  [][phase = "ok" =>
       /\ hasattr(self', "client_id") /\ hasattr(self', "client_secret")
       /\ self'.client_id = self.client_id
       /\ self'.client_secret = self.client_secret
       /\ \A i \in DOMAIN requests' :
            requests'[i].headers = requests'[1].headers]_vars

C16_Witness ==
  /\ Len(requests) = 2
  /\ session_reads >= 1
  /\ last.acc = 2
  /\ Failed(last)
  /\ ctor.secret_arg = None

\* C17: between accesses the stored token and the stored expiry are both
\* absent or both present.
C17_TokenAndExpiryTogether ==
  SingleThreaded => (hasattr(self, "_token") <=> hasattr(self, "_expires_in"))

\* C18: when two threads make the first token access concurrently and every
\* fetch succeeds, no access fails, and no access begins on a record that
\* has the token and not yet the expiry.
C18_ConcurrentFirstAccess ==
  \A t \in Threads : ~Failed(mt.done[t]) /\ ~mt.done[t].partial

\* C18 as the code has it: every access that returns returns a token, and
\* the only access that fails is one that began between lines 116 and 117
\* of the other thread: it posts nothing and raises AttributeError.
C18_FailsOnlyOnHalfStoredRecord ==
  \A t \in Threads :
    /\ mt.done[t].kind = "return" => mt.done[t].value \in AccessTokens
    /\ Failed(mt.done[t]) =>
         /\ mt.done[t].kind = "AttributeError"
         /\ mt.done[t].partial
         /\ mt.done[t].posts = 0

C18_Witness ==
  /\ naccess = 2
  /\ mt.done[1].kind = "return" /\ mt.done[1].posts = 1
  /\ mt.done[1].value \in AccessTokens
  /\ mt.done[2].kind = "AttributeError" /\ mt.done[2].partial

\* C19: the stored expiry changes only in a step that completes a fetch by
\* returning, and every refresh that returns replaces it by a greater one.
C19_ExpiryGrows ==
  [][/\ (\/ hasattr(self', "_expires_in") # hasattr(self, "_expires_in")
         \/ /\ hasattr(self, "_expires_in") /\ hasattr(self', "_expires_in")
            /\ self'._expires_in # self._expires_in) =>
          /\ last'.kind = "return"
          /\ last'.posts = 1
          /\ last'.post = self'
          /\ last' # last
     /\ (/\ last' # last /\ last'.kind = "return" /\ last'.posts = 1
         /\ hasattr(self, "_expires_in")) =>
          self'._expires_in > self._expires_in]_vars

C19_Witness ==
  /\ last.kind = "return"
  /\ last.posts = 1
  /\ hasattr(last.pre, "_expires_in")
  /\ last.post._expires_in > last.pre._expires_in
  /\ last.resp.json.expires_in = 0

====
